---- MODULE Spec2Model ----
(***************************************************************************)
(* A model of the Fluent Bit demo receiver (src/app/main.py): the          *)
(* background heartbeat thread and its lifecycle hooks, the POST /ingest   *)
(* handler with its body decoding, JSON parsing, record normalisation and  *)
(* buffered append to the receiving log file.                              *)
(*                                                                         *)
(* Text is modelled as sequences of one-character tokens.  An ASCII        *)
(* character and its UTF-8 byte share one token ("a", "{", "\n").  A       *)
(* non-ASCII character is the token "uXXXX" of its code point; its UTF-8   *)
(* bytes are the tokens "xHH".                                             *)
(***************************************************************************)
EXTENDS Integers, Sequences, FiniteSets, TLC

(***************************************************************************)
(* Bounds of the model.                                                    *)
(***************************************************************************)
\* Number of POST /ingest calls the event loop is given.
MaxCalls == 2
\* Number of bytes a buffered file object holds before it writes through.
\* (io.DEFAULT_BUFFER_SIZE in CPython, scaled to the model's short lines.)
BufCap == 12
\* Time units the clock may reach.
MaxTime == 12
\* Length of the arrays given to _normalize_records on its own.
MaxArr == 2
\* Number of GET requests served.
MaxGets == 1

(***************************************************************************)
(* Sequences.                                                              *)
(***************************************************************************)
RECURSIVE Flatten(_)
Flatten(ss) ==
    IF ss = <<>> THEN <<>> ELSE Head(ss) \o Flatten(Tail(ss))

RECURSIVE Join(_, _)
Join(ss, sep) ==
    IF ss = <<>> THEN <<>>
    ELSE IF Len(ss) = 1 THEN ss[1]
    ELSE ss[1] \o sep \o Join(Tail(ss), sep)

\* Whether pattern p occurs in s at position i.
MatchAt(s, i, p) ==
    /\ i + Len(p) - 1 <= Len(s)
    /\ SubSeq(s, i, i + Len(p) - 1) = p

(***************************************************************************)
(* Characters and the UTF-8 codec.                                         *)
(***************************************************************************)
\* The non-ASCII characters of the model and their UTF-8 encodings.
Utf8Table ==
    { [c |-> "u00e9", b |-> <<"xC3", "xA9">>],
      [c |-> "ufffd", b |-> <<"xEF", "xBF", "xBD">>] }

\* Code points U+D800..U+DFFF: no UTF-8 encoding exists.
Surrogates == {"ud800"}

NonAsciiBytes == {"xC3", "xA9", "xEF", "xBF", "xBD", "xFF"}

IsAsciiByte(b) == b \notin NonAsciiBytes

\* The longest n such that the bytes at i are a proper prefix of an encoding.
BadRun(bs, i) ==
    LET cand == { n \in 1..2 :
                    \E e \in Utf8Table :
                        /\ n < Len(e.b)
                        /\ MatchAt(bs, i, SubSeq(e.b, 1, n)) }
    IN  IF cand = {} THEN 1 ELSE CHOOSE n \in cand : \A m \in cand : m <= n

\* bytes.decode("utf-8", errors): [ok, s].  "strict" fails on an invalid
\* sequence, "replace" puts U+FFFD for it and goes on, "ignore" drops it.
RECURSIVE Utf8Decode(_, _, _)
Utf8Decode(bs, i, errors) ==
    IF i > Len(bs) THEN [ok |-> TRUE, s |-> <<>>]
    ELSE IF IsAsciiByte(bs[i])
    THEN LET r == Utf8Decode(bs, i + 1, errors)
         IN  [ok |-> r.ok, s |-> <<bs[i]>> \o r.s]
    ELSE IF \E e \in Utf8Table : MatchAt(bs, i, e.b)
    THEN LET e == CHOOSE e \in Utf8Table : MatchAt(bs, i, e.b)
             r == Utf8Decode(bs, i + Len(e.b), errors)
         IN  [ok |-> r.ok, s |-> <<e.c>> \o r.s]
    ELSE IF errors = "strict" THEN [ok |-> FALSE, s |-> <<>>]
    ELSE LET r == Utf8Decode(bs, i + BadRun(bs, i), errors)
         IN  [ok |-> r.ok,
              s |-> (IF errors = "replace" THEN <<"ufffd">> ELSE <<>>) \o r.s]

\* Whether a text can be encoded as UTF-8 (no lone surrogate in it).
Encodable(s) == \A k \in 1..Len(s) : s[k] \notin Surrogates

\* str.encode("utf-8") of an encodable text.
RECURSIVE Utf8Encode(_)
Utf8Encode(s) ==
    IF s = <<>> THEN <<>>
    ELSE LET c == Head(s)
         IN  (IF \E e \in Utf8Table : e.c = c
              THEN (CHOOSE e \in Utf8Table : e.c = c).b
              ELSE <<c>>) \o Utf8Encode(Tail(s))

(***************************************************************************)
(* Python values as json.loads builds them.                                *)
(***************************************************************************)
VNone == [t |-> "none"]
VBool(b) == [t |-> "bool", b |-> b]
VInt(n) == [t |-> "int", n |-> n]
VStr(s) == [t |-> "str", s |-> s]
VList(xs) == [t |-> "list", items |-> xs]
\* A dict keeps its insertion order: a sequence of [k, v] with distinct keys.
VDict(kvs) == [t |-> "dict", items |-> kvs]

\* isinstance(x, list), isinstance(x, dict)
IsList(x) == x.t = "list"
IsDict(x) == x.t = "dict"

\* The decimal digits of a natural number.
Digit(d) ==
    CASE d = 0 -> "0" [] d = 1 -> "1" [] d = 2 -> "2" [] d = 3 -> "3"
      [] d = 4 -> "4" [] d = 5 -> "5" [] d = 6 -> "6" [] d = 7 -> "7"
      [] d = 8 -> "8" [] d = 9 -> "9"

RECURSIVE NatDigits(_)
NatDigits(n) ==
    IF n < 10 THEN <<Digit(n)>>
    ELSE NatDigits(n \div 10) \o <<Digit(n % 10)>>

IntText(n) == IF n < 0 THEN <<"-">> \o NatDigits(0 - n) ELSE NatDigits(n)

\* repr() of a str: single quotes, backslash escapes.  (A text that holds
\* a single quote and no double quote is quoted with double quotes.)
RECURSIVE ReprChars(_, _)
ReprChars(s, q) ==
    IF s = <<>> THEN <<>>
    ELSE LET c == Head(s)
         IN  (CASE c = "\\" -> <<"\\", "\\">>
                [] c = "\n" -> <<"\\", "n">>
                [] c = q -> <<"\\", q>>
                [] c = "ud800" -> <<"\\", "u", "d", "8", "0", "0">>
                [] OTHER -> <<c>>) \o ReprChars(Tail(s), q)

ReprStr(s) ==
    LET hasS == \E k \in 1..Len(s) : s[k] = "'"
        hasD == \E k \in 1..Len(s) : s[k] = "\""
        q == IF hasS /\ ~hasD THEN "\"" ELSE "'"
    IN  <<q>> \o ReprChars(s, q) \o <<q>>

\* repr() of a value, as str() of a list or a dict shows its members.
RECURSIVE Repr(_)
Repr(x) ==
    CASE x.t = "none" -> <<"N", "o", "n", "e">>
      [] x.t = "bool" -> IF x.b THEN <<"T", "r", "u", "e">>
                                ELSE <<"F", "a", "l", "s", "e">>
      [] x.t = "int" -> IntText(x.n)
      [] x.t = "str" -> ReprStr(x.s)
      [] x.t = "list" ->
            <<"[">> \o Join([k \in 1..Len(x.items) |-> Repr(x.items[k])],
                            <<",", " ">>) \o <<"]">>
      [] x.t = "dict" ->
            <<"{">> \o Join([k \in 1..Len(x.items) |->
                                ReprStr(x.items[k].k) \o <<":", " ">>
                                    \o Repr(x.items[k].v)],
                            <<",", " ">>) \o <<"}">>

\* str(x): the text itself for a str, repr(x) for every other type.
Str(x) == IF x.t = "str" THEN x.s ELSE Repr(x)

\* {"message": str(x)}
MessageRecord(x) == VDict(<<[k |-> <<"m", "e", "s", "s", "a", "g", "e">>,
                            v |-> VStr(Str(x))]>>)

(***************************************************************************)
(* _normalize_records                                                      *)
(***************************************************************************)
\* NormalizeLoop without the isinstance(item, dict) branch: every item wrapped.
RECURSIVE NormalizeLoopWrapAll(_, _)
NormalizeLoopWrapAll(items, records) ==
    IF items = <<>> THEN records
    ELSE NormalizeLoopWrapAll(Tail(items),
                              Append(records, MessageRecord(Head(items))))

\* The loop over a list payload: records.append(...) for each item in turn.
RECURSIVE NormalizeLoop(_, _)
NormalizeLoop(items, records) ==
    IF items = <<>> THEN records
    ELSE LET item == Head(items)
         IN  NormalizeLoop(Tail(items),
                           IF IsDict(item)
                           THEN Append(records, item)
                           ELSE Append(records, MessageRecord(item)))

\* _normalize_records without its elif isinstance(payload, dict) branch.
NormalizeNoDictBranch(p) ==
    IF IsList(p) THEN NormalizeLoop(p.items, <<>>)
    ELSE <<MessageRecord(p)>>

_normalize_records(payload) ==
    IF IsList(payload) THEN NormalizeLoop(payload.items, <<>>)
    ELSE IF IsDict(payload) THEN <<payload>>
    ELSE <<MessageRecord(payload)>>

(***************************************************************************)
(* json.dumps(rec, ensure_ascii=False)                                     *)
(***************************************************************************)
\* The body of a JSON string: quote, backslash and control characters are
\* escaped; with ensure_ascii=False every other character is written as is.
RECURSIVE EscapeChars(_)
EscapeChars(s) ==
    IF s = <<>> THEN <<>>
    ELSE LET c == Head(s)
         IN  (CASE c = "\"" -> <<"\\", "\"">>
                [] c = "\\" -> <<"\\", "\\">>
                [] c = "\n" -> <<"\\", "n">>
                [] c = "\r" -> <<"\\", "r">>
                [] c = "\t" -> <<"\\", "t">>
                [] OTHER -> <<c>>) \o EscapeChars(Tail(s))

DumpsStr(s) == <<"\"">> \o EscapeChars(s) \o <<"\"">>

RECURSIVE Dumps(_)
Dumps(x) ==
    CASE x.t = "none" -> <<"n", "u", "l", "l">>
      [] x.t = "bool" -> IF x.b THEN <<"t", "r", "u", "e">>
                                ELSE <<"f", "a", "l", "s", "e">>
      [] x.t = "int" -> IntText(x.n)
      [] x.t = "str" -> DumpsStr(x.s)
      [] x.t = "list" ->
            <<"[">> \o Join([k \in 1..Len(x.items) |-> Dumps(x.items[k])],
                            <<",", " ">>) \o <<"]">>
      [] x.t = "dict" ->
            <<"{">> \o Join([k \in 1..Len(x.items) |->
                                DumpsStr(x.items[k].k) \o <<":", " ">>
                                    \o Dumps(x.items[k].v)],
                            <<",", " ">>) \o <<"}">>

(***************************************************************************)
(* json.loads(text): the CPython scanner, for the JSON of the model        *)
(* (objects, arrays, strings, integers, true, false, null).                *)
(* A parse result is [ok, v, i]: the value and the index after it.         *)
(***************************************************************************)
ParseFail == [ok |-> FALSE, v |-> VNone, i |-> 0]
ParseOk(v, i) == [ok |-> TRUE, v |-> v, i |-> i]

Whitespace == {" ", "\t", "\n", "\r"}
ControlChars == {"\t", "\n", "\r"}
DigitChars == {"0", "1", "2", "3", "4", "5", "6", "7", "8", "9"}
HexChars == DigitChars \cup {"a", "b", "c", "d", "e", "f"}

At(s, i) == IF 1 <= i /\ i <= Len(s) THEN s[i] ELSE "EOF"

RECURSIVE SkipWs(_, _)
SkipWs(s, i) ==
    IF At(s, i) \in Whitespace THEN SkipWs(s, i + 1) ELSE i

DigitVal(c) == CHOOSE d \in 0..9 : Digit(d) = c

\* The character a \uXXXX escape names.
UnicodeEscape(h1, h2, h3, h4) ==
    CASE <<h1, h2, h3, h4>> = <<"0", "0", "0", "a">> -> "\n"
      [] <<h1, h2, h3, h4>> = <<"0", "0", "4", "1">> -> "A"
      [] OTHER -> "u" \o h1 \o h2 \o h3 \o h4

\* py_scanstring, from the character after the opening quote.
RECURSIVE ScanString(_, _, _)
ScanString(s, i, acc) ==
    LET c == At(s, i)
    IN  CASE c = "EOF" -> ParseFail
          [] c = "\"" -> ParseOk(VStr(acc), i + 1)
          [] c \in ControlChars -> ParseFail
          [] c = "\\" ->
                LET esc == At(s, i + 1)
                IN  CASE esc \in {"\"", "\\", "/"} ->
                            ScanString(s, i + 2, Append(acc, esc))
                      [] esc = "n" -> ScanString(s, i + 2, Append(acc, "\n"))
                      [] esc = "t" -> ScanString(s, i + 2, Append(acc, "\t"))
                      [] esc = "r" -> ScanString(s, i + 2, Append(acc, "\r"))
                      [] esc = "u" ->
                            IF \A k \in 2..5 : At(s, i + k) \in HexChars
                            THEN ScanString(s, i + 6,
                                    Append(acc, UnicodeEscape(s[i + 2], s[i + 3],
                                                              s[i + 4], s[i + 5])))
                            ELSE ParseFail
                      [] OTHER -> ParseFail
          [] OTHER -> ScanString(s, i + 1, Append(acc, c))

\* The digits of NUMBER_RE's integer part from i on: [n, i].
RECURSIVE ScanDigits(_, _, _)
ScanDigits(s, i, n) ==
    IF At(s, i) \in DigitChars
    THEN ScanDigits(s, i + 1, 10 * n + DigitVal(s[i]))
    ELSE [n |-> n, i |-> i]

\* NUMBER_RE: -?(0|[1-9]\d*)
ScanNumber(s, i) ==
    LET neg == At(s, i) = "-"
        j == IF neg THEN i + 1 ELSE i
    IN  IF At(s, j) \notin DigitChars THEN ParseFail
        ELSE IF At(s, j) = "0" THEN ParseOk(VInt(0), j + 1)
        ELSE LET d == ScanDigits(s, j, 0)
             IN  ParseOk(VInt(IF neg THEN 0 - d.n ELSE d.n), d.i)

\* dict(pairs): a later value of a key replaces the earlier one in place.
DictSet(kvs, key, val) ==
    IF \E n \in 1..Len(kvs) : kvs[n].k = key
    THEN [n \in 1..Len(kvs) |->
            IF kvs[n].k = key THEN [k |-> key, v |-> val] ELSE kvs[n]]
    ELSE Append(kvs, [k |-> key, v |-> val])

RECURSIVE ScanOnce(_, _)
RECURSIVE ScanObject(_, _, _)
RECURSIVE ScanArray(_, _, _)

\* JSONObject's loop, from the character after a key's opening quote.
ScanObject(s, i, acc) ==
    LET key == ScanString(s, i, <<>>)
    IN  IF ~key.ok THEN ParseFail
        ELSE LET c == SkipWs(s, key.i)
             IN  IF At(s, c) # ":" THEN ParseFail
                 ELSE LET val == ScanOnce(s, SkipWs(s, c + 1))
                      IN  IF ~val.ok THEN ParseFail
                          ELSE LET pairs == DictSet(acc, key.v.s, val.v)
                                   e == SkipWs(s, val.i)
                               IN  CASE At(s, e) = "}" ->
                                            ParseOk(VDict(pairs), e + 1)
                                     [] At(s, e) = "," ->
                                            LET q == SkipWs(s, e + 1)
                                            IN  IF At(s, q) = "\""
                                                THEN ScanObject(s, q + 1, pairs)
                                                ELSE ParseFail
                                     [] OTHER -> ParseFail

\* JSONArray's loop, from the first character of an element.
ScanArray(s, i, acc) ==
    LET val == ScanOnce(s, i)
    IN  IF ~val.ok THEN ParseFail
        ELSE LET e == SkipWs(s, val.i)
             IN  CASE At(s, e) = "]" ->
                          ParseOk(VList(Append(acc, val.v)), e + 1)
                   [] At(s, e) = "," ->
                          ScanArray(s, SkipWs(s, e + 1), Append(acc, val.v))
                   [] OTHER -> ParseFail

\* scan_once
ScanOnce(s, i) ==
    LET c == At(s, i)
    IN  CASE c = "\"" -> ScanString(s, i + 1, <<>>)
          [] c = "{" ->
                LET q == SkipWs(s, i + 1)
                IN  CASE At(s, q) = "}" -> ParseOk(VDict(<<>>), q + 1)
                      [] At(s, q) = "\"" -> ScanObject(s, q + 1, <<>>)
                      [] OTHER -> ParseFail
          [] c = "[" ->
                LET q == SkipWs(s, i + 1)
                IN  IF At(s, q) = "]" THEN ParseOk(VList(<<>>), q + 1)
                    ELSE ScanArray(s, q, <<>>)
          [] c = "n" /\ MatchAt(s, i, <<"n", "u", "l", "l">>) ->
                ParseOk(VNone, i + 4)
          [] c = "t" /\ MatchAt(s, i, <<"t", "r", "u", "e">>) ->
                ParseOk(VBool(TRUE), i + 4)
          [] c = "f" /\ MatchAt(s, i, <<"f", "a", "l", "s", "e">>) ->
                ParseOk(VBool(FALSE), i + 5)
          [] OTHER -> ScanNumber(s, i)

\* JSONDecoder.decode: one value, whitespace around it, nothing after it.
Loads(s) ==
    LET r == ScanOnce(s, SkipWs(s, 1))
    IN  IF r.ok /\ SkipWs(s, r.i) = Len(s) + 1 THEN r ELSE ParseFail

(***************************************************************************)
(* Request bodies given to POST /ingest.                                   *)
(***************************************************************************)
\* {"a":1}
BodyObject == <<"{", "\"", "a", "\"", ":", "1", "}">>
\* [1,{}]  -- a line longer than the buffer, then a short one it holds
BodyArrayMixed == <<"[", "1", ",", "{", "}", "]">>
\* []
BodyArrayEmpty == <<"[", "]">>
\* no  -- not JSON
BodyText == <<"n", "o">>
\* one byte that is not UTF-8
BodyBadUtf8 == <<"xFF">>
\* "e-acute \n b": a JSON string of a non-ASCII character (its two UTF-8
\* bytes) and an escaped line feed
BodyString == <<"\"", "xC3", "xA9", "\\", "n", "b", "\"">>
\* "\ud800"  -- a JSON string holding an escaped lone surrogate
BodySurrogate == <<"\"", "\\", "u", "d", "8", "0", "0", "\"">>
\* [{},"\ud800"]
BodyArraySurrogate ==
    <<"[", "{", "}", ",", "\"", "\\", "u", "d", "8", "0", "0", "\"", "]">>
Bodies ==
    { BodyObject, BodyArrayMixed, BodyArrayEmpty, BodyText, BodyBadUtf8,
      BodyString, BodySurrogate, BodyArraySurrogate }

(***************************************************************************)
(* The state of the service.                                               *)
(***************************************************************************)
VARIABLES
    \* POST /ingest: one coroutine per call on the one event loop
    ipc,        \* where each call's handler stands
    loop,       \* the call whose handler the event loop is running, or 0
    body,       \* the bytes request.body() gives each call
    records,    \* each call's records (line 177)
    idx,        \* for rec in records: the index of the next record
    fopen,      \* whether each call's file object f is open
    fbuf,       \* the bytes each call's file object buffers
    file,       \* the bytes of RECEIVED_LOG_PATH
    owner,      \* for each byte of file, the call that wrote it
    stdout,     \* the lines print() wrote
    resp,       \* the response each call returned
    exc,        \* the exception each call's handler caught
    appLog,     \* the entries app_logger emitted, in order
    \* the lifecycle hooks and the background thread
    phase,      \* how far the lifecycle hooks have run
    bgpc,       \* where the bg-logger thread stands
    _stop_bg,   \* the threading.Event
    bg_i,       \* the local i of _bg_logger
    now,        \* time units since the thread was started
    deadline,   \* when the wait in progress times out
    atStop,     \* what held when _stop_bg was set: time, i, thread position
    \* _normalize_records on its own
    normpc,     \* "idle", "call" before the call, "return" after it
    payload,    \* the argument
    normalized, \* the result, once it was called
    \* the GET handlers
    gcalls,     \* how many GET requests were served
    gresp,      \* the response of the latest of them
    glines      \* the entries its handler logged

vars ==
    << ipc, loop, body, records, idx, fopen, fbuf, file, owner, stdout, resp,
       exc, appLog, phase, bgpc, _stop_bg, bg_i, now, deadline, atStop,
       normpc, payload, normalized, gcalls, gresp, glines >>

ingestVars ==
    << ipc, loop, body, records, idx, fopen, fbuf, file, owner, stdout, resp,
       exc >>

bgVars == << phase, bgpc, _stop_bg, bg_i, now, deadline, atStop >>

normVars == << normpc, payload, normalized >>

getVars == << gcalls, gresp, glines >>

Calls == 1..MaxCalls

NoResponse == [status |-> "none", code |-> 0, count |-> 0, detail |-> "none"]
Received(n) == [status |-> "received", code |-> 200, count |-> n, detail |-> "none"]
Error(e) == [status |-> "error", code |-> 500, count |-> 0, detail |-> e]

InitIngest ==
    /\ ipc = [c \in Calls |-> "new"]
    /\ loop = 0
    /\ body = [c \in Calls |-> <<>>]
    /\ records = [c \in Calls |-> <<>>]
    /\ idx = [c \in Calls |-> 0]
    /\ fopen = [c \in Calls |-> FALSE]
    /\ fbuf = [c \in Calls |-> <<>>]
    /\ file = <<>>
    /\ owner = <<>>
    /\ stdout = <<>>
    /\ resp = [c \in Calls |-> NoResponse]
    /\ exc = [c \in Calls |-> "none"]

NotStopped == [t |-> 0 - 1, i |-> 0, pc |-> "unstarted", hb |-> 0]

InitBg ==
    /\ phase = "init"
    /\ bgpc = "unstarted"
    /\ _stop_bg = FALSE
    /\ bg_i = 0
    /\ now = 0
    /\ deadline = 0
    /\ atStop = NotStopped

InitNorm ==
    /\ normpc = "idle"
    /\ payload = VNone
    /\ normalized = <<>>

\* The body of a GET response: the endpoint it answers for, its status and
\* its counts (0 where the endpoint gives none).
GetResponse(endpoint, status, generated, audit, non_audit) ==
    [endpoint |-> endpoint, status |-> status, logs_generated |-> generated,
     audit_logs |-> audit, non_audit_logs |-> non_audit]

NoGet == GetResponse("none", "none", 0, 0, 0)

InitGet ==
    /\ gcalls = 0
    /\ gresp = NoGet
    /\ glines = <<>>

(***************************************************************************)
(* app_logger                                                              *)
(***************************************************************************)
\* An entry: its level, the words of its message, the counter and the text
\* the message carries, and the request data (a body, a list of records) that the call
\* of the logger was given to put into it.
LogEntry(level, event, counter, detail, context) ==
    [level |-> level, event |-> event, counter |-> counter, detail |-> detail,
     context |-> context]

\* json.dumps({"event": "heartbeat", "counter": i, "component": "demo-app"})
Heartbeat(n) == LogEntry("INFO", <<"heartbeat">>, n, "demo-app", {})

\* app_logger.exception("Error in /ingest: %s", e): the exception is the one
\* argument of the message.
IngestError(e) == LogEntry("ERROR", <<"Error", "in", "/ingest:">>, 0, e, {})

\* The counters of the heartbeat messages emitted so far, in order.
HeartbeatCounters ==
    LET hb == SelectSeq(appLog, LAMBDA e : e.event = <<"heartbeat">>)
    IN  [k \in 1..Len(hb) |-> hb[k].counter]

(***************************************************************************)
(* POST /ingest                                                            *)
(***************************************************************************)
MessageKey == <<"m", "e", "s", "s", "a", "g", "e">>

\* ParseBody with errors="ignore" in the fallback.
ParseBodyIgnore(b) ==
    LET text == Utf8Decode(b, 1, "strict")
        parsed == IF text.ok THEN Loads(text.s) ELSE ParseFail
    IN  IF parsed.ok THEN parsed.v
        ELSE VDict(<<[k |-> MessageKey,
                      v |-> VStr(Utf8Decode(b, 1, "ignore").s)]>>)

\* Lines 172-175: json.loads of the strictly decoded body; on any exception
\* {"message": <the body decoded with errors="replace">}.
ParseBody(b) ==
    LET text == Utf8Decode(b, 1, "strict")
        parsed == IF text.ok THEN Loads(text.s) ELSE ParseFail
    IN  IF parsed.ok THEN parsed.v
        ELSE VDict(<<[k |-> MessageKey,
                      v |-> VStr(Utf8Decode(b, 1, "replace").s)]>>)

\* f.write(line) for a record: the line terminator left out.
LineBytesNoTerminator(rec) == Utf8Encode(Dumps(rec))

\* Lines 182-184: what f.write(line + "\n") hands the file object for a record.
LineBytes(rec) == Utf8Encode(Dumps(rec) \o <<"\n">>)

\* AwaitPoint had the file been written with awaited (asynchronous) writes.
AwaitPointInLoop(pc) == pc \in {"await_body", "write"}

\* The places where the handler awaits, and the event loop may run another
\* handler: await request.body() alone.
AwaitPoint(pc) == pc = "await_body"

\* The event loop runs one coroutine at a time, from one await to the next.
Runs(c) == loop = c \/ (loop = 0 /\ AwaitPoint(ipc[c]))

LoopAfter(c, pc) == IF AwaitPoint(pc) \/ pc = "done" THEN 0 ELSE c

\* A request arrives: the handler is started and suspends at line 170.
Request(c, b) ==
    /\ ipc[c] = "new"
    /\ IF c = 1 THEN TRUE ELSE ipc[c - 1] # "new"
    /\ loop = 0
    /\ ipc' = [ipc EXCEPT ![c] = "await_body"]
    /\ body' = [body EXCEPT ![c] = b]
    /\ loop' = LoopAfter(c, "await_body")
    /\ UNCHANGED << records, idx, fopen, fbuf, file, owner, stdout, resp, exc >>
    /\ UNCHANGED << appLog, bgVars, normVars, getVars >>

\* Lines 170-177: the body is in; parse it and normalise the payload.
BodyReceived(c) ==
    /\ ipc[c] = "await_body"
    /\ Runs(c)
    /\ ipc' = [ipc EXCEPT ![c] = "open"]
    /\ records' = [records EXCEPT ![c] = _normalize_records(ParseBody(body[c]))]
    /\ loop' = LoopAfter(c, "open")
    /\ UNCHANGED << body, idx, fopen, fbuf, file, owner, stdout, resp, exc >>
    /\ UNCHANGED << appLog, bgVars, normVars, getVars >>

\* Line 170 raises: the client went away before the body was in.
BodyFailed(c) ==
    /\ ipc[c] = "await_body"
    /\ Runs(c)
    /\ ipc' = [ipc EXCEPT ![c] = "except"]
    /\ exc' = [exc EXCEPT ![c] = "ClientDisconnect"]
    /\ loop' = LoopAfter(c, "except")
    /\ UNCHANGED << body, records, idx, fopen, fbuf, file, owner, stdout, resp >>
    /\ UNCHANGED << appLog, bgVars, normVars, getVars >>

\* Line 180: open(RECEIVED_LOG_PATH, "a"), which the file system may refuse.
OpenFile(c) ==
    /\ ipc[c] = "open"
    /\ Runs(c)
    /\ \E ok \in BOOLEAN :
        IF ok
        THEN /\ ipc' = [ipc EXCEPT ![c] = "write"]
             /\ fopen' = [fopen EXCEPT ![c] = TRUE]
             /\ idx' = [idx EXCEPT ![c] = 1]
             /\ loop' = LoopAfter(c, "write")
             /\ exc' = exc
        ELSE /\ ipc' = [ipc EXCEPT ![c] = "except"]
             /\ exc' = [exc EXCEPT ![c] = "OSError"]
             /\ loop' = LoopAfter(c, "except")
             /\ UNCHANGED << fopen, idx >>
    /\ UNCHANGED << body, records, fbuf, file, owner, stdout, resp >>
    /\ UNCHANGED << appLog, bgVars, normVars, getVars >>

\* The outcomes of writing a buffer through: nothing to write cannot fail.
FlushOutcomes(buf) == IF buf = <<>> THEN {TRUE} ELSE BOOLEAN

\* The file after call c wrote bytes to it, had it been opened with mode
\* "w": the write replaces what the file held.
AppendedTruncating(c, bytes) ==
    /\ file' = bytes
    /\ owner' = [k \in 1..Len(bytes) |-> c]

\* The file after call c appended bytes to it (O_APPEND).
Appended(c, bytes) ==
    /\ file' = file \o bytes
    /\ owner' = owner \o [k \in 1..Len(bytes) |-> c]

\* Leaving the with block on an exception e: f is closed, and what it still
\* buffers is written through, or lost with an OSError of its own.
RaiseInWith(c, e, buf) ==
    \E ok \in FlushOutcomes(buf) :
        /\ IF ok THEN Appended(c, buf) ELSE UNCHANGED << file, owner >>
        /\ exc' = [exc EXCEPT ![c] = IF ok THEN e ELSE "OSError"]
        /\ fbuf' = [fbuf EXCEPT ![c] = <<>>]
        /\ fopen' = [fopen EXCEPT ![c] = FALSE]
        /\ ipc' = [ipc EXCEPT ![c] = "except"]
        /\ loop' = LoopAfter(c, "except")

\* Lines 181-184, one turn of the loop: serialise, print, f.write.
WriteRecord(c) ==
    /\ ipc[c] = "write"
    /\ Runs(c)
    /\ idx[c] <= Len(records[c])
    /\ LET line == Dumps(records[c][idx[c]])
       IN  IF ~Encodable(line)
           THEN \* print (and f.write) cannot encode the line
                /\ RaiseInWith(c, "UnicodeEncodeError", fbuf[c])
                /\ UNCHANGED << idx, stdout >>
           ELSE LET buf == fbuf[c] \o LineBytes(records[c][idx[c]])
                IN  /\ stdout' = Append(stdout, <<"INGEST: ">> \o line)
                    /\ IF Len(buf) <= BufCap
                       THEN /\ fbuf' = [fbuf EXCEPT ![c] = buf]
                            /\ idx' = [idx EXCEPT ![c] = idx[c] + 1]
                            /\ ipc' = ipc
                            /\ loop' = LoopAfter(c, "write")
                            /\ UNCHANGED << fopen, file, owner, exc >>
                       ELSE \* the buffer is full: it is written through
                            \E ok \in BOOLEAN :
                                IF ok
                                THEN /\ Appended(c, buf)
                                     /\ fbuf' = [fbuf EXCEPT ![c] = <<>>]
                                     /\ idx' = [idx EXCEPT ![c] = idx[c] + 1]
                                     /\ ipc' = ipc
                                     /\ loop' = LoopAfter(c, "write")
                                     /\ UNCHANGED << fopen, exc >>
                                ELSE /\ RaiseInWith(c, "OSError", buf)
                                     /\ idx' = idx
    /\ UNCHANGED << body, records, resp >>
    /\ UNCHANGED << appLog, bgVars, normVars, getVars >>

\* CloseFile without the with block: the handler goes on to its response
\* with f open and its buffer unwritten.
CloseFileLeaveOpen(c) ==
    /\ ipc[c] = "write"
    /\ Runs(c)
    /\ idx[c] > Len(records[c])
    /\ ipc' = [ipc EXCEPT ![c] = "respond"]
    /\ loop' = LoopAfter(c, "respond")
    /\ UNCHANGED << body, records, idx, fopen, fbuf, file, owner, stdout, resp >>
    /\ UNCHANGED << exc, appLog, bgVars, normVars, getVars >>

\* Leaving the with block after the last record: f.close() writes the
\* buffer through; a failure raises OSError.
CloseFile(c) ==
    /\ ipc[c] = "write"
    /\ Runs(c)
    /\ idx[c] > Len(records[c])
    /\ \E ok \in FlushOutcomes(fbuf[c]) :
        IF ok
        THEN /\ Appended(c, fbuf[c])
             /\ ipc' = [ipc EXCEPT ![c] = "respond"]
             /\ loop' = LoopAfter(c, "respond")
             /\ exc' = exc
        ELSE /\ UNCHANGED << file, owner >>
             /\ ipc' = [ipc EXCEPT ![c] = "except"]
             /\ exc' = [exc EXCEPT ![c] = "OSError"]
             /\ loop' = LoopAfter(c, "except")
    /\ fbuf' = [fbuf EXCEPT ![c] = <<>>]
    /\ fopen' = [fopen EXCEPT ![c] = FALSE]
    /\ UNCHANGED << body, records, idx, stdout, resp >>
    /\ UNCHANGED << appLog, bgVars, normVars, getVars >>

\* Respond with a count of one per request, whatever the batch.
RespondCountOne(c) ==
    /\ ipc[c] = "respond"
    /\ Runs(c)
    /\ resp' = [resp EXCEPT ![c] = Received(1)]
    /\ ipc' = [ipc EXCEPT ![c] = "done"]
    /\ loop' = LoopAfter(c, "done")
    /\ UNCHANGED << body, records, idx, fopen, fbuf, file, owner, stdout, exc >>
    /\ UNCHANGED << appLog, bgVars, normVars, getVars >>

\* Line 186
Respond(c) ==
    /\ ipc[c] = "respond"
    /\ Runs(c)
    /\ resp' = [resp EXCEPT ![c] = Received(Len(records[c]))]
    /\ ipc' = [ipc EXCEPT ![c] = "done"]
    /\ loop' = LoopAfter(c, "done")
    /\ UNCHANGED << body, records, idx, fopen, fbuf, file, owner, stdout, exc >>
    /\ UNCHANGED << appLog, bgVars, normVars, getVars >>

\* HandleException without its return: the exception is logged and raised
\* again, so the handler ends with no response of its own.
HandleExceptionReraise(c) ==
    /\ ipc[c] = "except"
    /\ Runs(c)
    /\ appLog' = Append(appLog, IngestError(exc[c]))
    /\ ipc' = [ipc EXCEPT ![c] = "done"]
    /\ loop' = LoopAfter(c, "done")
    /\ UNCHANGED << body, records, idx, fopen, fbuf, file, owner, stdout, exc >>
    /\ UNCHANGED << resp, bgVars, normVars, getVars >>

\* Lines 187-189
HandleException(c) ==
    /\ ipc[c] = "except"
    /\ Runs(c)
    /\ appLog' = Append(appLog, IngestError(exc[c]))
    /\ resp' = [resp EXCEPT ![c] = Error(exc[c])]
    /\ ipc' = [ipc EXCEPT ![c] = "done"]
    /\ loop' = LoopAfter(c, "done")
    /\ UNCHANGED << body, records, idx, fopen, fbuf, file, owner, stdout, exc >>
    /\ UNCHANGED << bgVars, normVars, getVars >>

Init ==
    /\ InitIngest
    /\ InitBg
    /\ InitNorm
    /\ InitGet
    /\ appLog = <<>>

Next ==
    \/ \E c \in Calls, b \in Bodies : Request(c, b)
    \/ \E c \in Calls : BodyReceived(c)
    \/ \E c \in Calls : BodyFailed(c)
    \/ \E c \in Calls : OpenFile(c)
    \/ \E c \in Calls : WriteRecord(c)
    \/ \E c \in Calls : CloseFile(c)
    \/ \E c \in Calls : Respond(c)
    \/ \E c \in Calls : HandleException(c)

Spec == Init /\ [][Next]_vars

(***************************************************************************)
(* The background thread and the lifecycle hooks.                          *)
(***************************************************************************)
\* A longer timeout of the wait.
WaitTimeoutLonger == 5 + 1

\* _stop_bg.wait(5.0): the timeout
WaitTimeout == 5

\* A blind time.sleep(5.0) in place of the wait on the event.
WaitOverTimeoutOnly == now >= deadline

\* _stop_bg.wait(5.0) returns when the event is set or the timeout is over.
WaitOver == _stop_bg \/ now >= deadline

\* on_startup, lines 69-70: the thread is created and started.
StartThread ==
    /\ phase = "init"
    /\ phase' = "starting"
    /\ bgpc' = "test"
    /\ bg_i' = 0
    /\ UNCHANGED << _stop_bg, now, deadline, atStop >>
    /\ UNCHANGED << appLog, ingestVars, normVars, getVars >>

\* on_startup, line 71
StartupLog ==
    /\ phase = "starting"
    /\ phase' = "serving"
    /\ appLog' = Append(appLog, LogEntry("INFO", <<"App", "startup", "complete">>, 0, "none", {}))
    /\ UNCHANGED << bgpc, _stop_bg, bg_i, now, deadline, atStop >>
    /\ UNCHANGED << ingestVars, normVars, getVars >>

\* on_shutdown, line 76
SetStop ==
    /\ phase = "serving"
    /\ phase' = "stopping"
    /\ _stop_bg' = TRUE
    /\ atStop' = [t |-> now, i |-> bg_i, pc |-> bgpc, hb |-> Len(HeartbeatCounters)]
    /\ UNCHANGED << bgpc, bg_i, now, deadline >>
    /\ UNCHANGED << appLog, ingestVars, normVars, getVars >>

\* on_shutdown, line 77
ShutdownLog ==
    /\ phase = "stopping"
    /\ phase' = "stopped"
    /\ appLog' = Append(appLog, LogEntry("INFO", <<"App", "shutting", "down">>, 0, "none", {}))
    /\ UNCHANGED << bgpc, _stop_bg, bg_i, now, deadline, atStop >>
    /\ UNCHANGED << ingestVars, normVars, getVars >>

\* BgTest with the loop test left out: while True.
BgTestIgnoreStop ==
    /\ bgpc = "test"
    /\ bgpc' = "increment"
    /\ UNCHANGED << phase, _stop_bg, bg_i, now, deadline, atStop >>
    /\ UNCHANGED << appLog, ingestVars, normVars, getVars >>

\* Line 49: while not _stop_bg.is_set()
BgTest ==
    /\ bgpc = "test"
    /\ bgpc' = IF _stop_bg THEN "done" ELSE "increment"
    /\ UNCHANGED << phase, _stop_bg, bg_i, now, deadline, atStop >>
    /\ UNCHANGED << appLog, ingestVars, normVars, getVars >>

\* BgIncrement with i set anew in every turn of the loop.
BgIncrementFresh ==
    /\ bgpc = "increment"
    /\ bg_i' = 1
    /\ bgpc' = "emit"
    /\ UNCHANGED << phase, _stop_bg, now, deadline, atStop >>
    /\ UNCHANGED << appLog, ingestVars, normVars, getVars >>

\* Line 50: i += 1
BgIncrement ==
    /\ bgpc = "increment"
    /\ bg_i' = bg_i + 1
    /\ bgpc' = "emit"
    /\ UNCHANGED << phase, _stop_bg, now, deadline, atStop >>
    /\ UNCHANGED << appLog, ingestVars, normVars, getVars >>

\* Lines 52-60: the message is logged and the wait begins.
BgEmit ==
    /\ bgpc = "emit"
    /\ appLog' = Append(appLog, Heartbeat(bg_i))
    /\ deadline' = now + WaitTimeout
    /\ bgpc' = "wait"
    /\ UNCHANGED << phase, _stop_bg, bg_i, now, atStop >>
    /\ UNCHANGED << ingestVars, normVars, getVars >>

\* BgWaitReturn on an event that resets itself when a waiter is released.
BgWaitReturnClear ==
    /\ bgpc = "wait"
    /\ WaitOver
    /\ bgpc' = "test"
    /\ _stop_bg' = FALSE
    /\ UNCHANGED << phase, bg_i, now, deadline, atStop >>
    /\ UNCHANGED << appLog, ingestVars, normVars, getVars >>

\* Line 60: the wait returns.
BgWaitReturn ==
    /\ bgpc = "wait"
    /\ WaitOver
    /\ bgpc' = "test"
    /\ UNCHANGED << phase, _stop_bg, bg_i, now, deadline, atStop >>
    /\ UNCHANGED << appLog, ingestVars, normVars, getVars >>

BgStep == BgTest \/ BgIncrement \/ BgEmit \/ BgWaitReturn

\* The thread has a step to take that takes no time.
BgReady ==
    \/ bgpc \in {"test", "increment", "emit"}
    \/ bgpc = "wait" /\ WaitOver

\* One time unit passes.  The thread's own steps take no time: the clock
\* stands while the thread has one to take.
Tick ==
    /\ phase # "init"
    /\ now < MaxTime
    /\ ~BgReady
    /\ now' = now + 1
    /\ UNCHANGED << phase, bgpc, _stop_bg, bg_i, deadline, atStop >>
    /\ UNCHANGED << appLog, ingestVars, normVars, getVars >>

NextBg ==
    \/ StartThread
    \/ StartupLog
    \/ SetStop
    \/ ShutdownLog
    \/ BgTest
    \/ BgIncrement
    \/ BgEmit
    \/ BgWaitReturn
    \/ Tick

SpecBg == Init /\ [][NextBg]_vars

\* The operating system schedules the thread: a step it can take is taken.
SpecBgFair == SpecBg /\ WF_vars(BgStep)

(***************************************************************************)
(* The GET handlers, served between on_startup and on_shutdown.  None of   *)
(* them awaits: the event loop runs each from its first line to its        *)
(* return, and its lines enter the log together (a heartbeat of the       *)
(* thread stands before or after the lines of a call, not among them).     *)
(* The values drawn for user_id, action, resource and the like stand in    *)
(* the messages as the words "<user_id>", "<action>", ...                  *)
(***************************************************************************)
\* A line a handler logs: a level and the words of the message.
Line(level, words) == LogEntry(level, words, 0, "none", {})

\* A GET request can be served.
Serving == phase = "serving" /\ gcalls < MaxGets

\* Lines 80-82
root ==
    /\ Serving
    /\ gcalls' = gcalls + 1
    /\ gresp' = GetResponse("/", "ok", 0, 0, 0)
    /\ glines' = <<>>
    /\ UNCHANGED << appLog, ingestVars, bgVars, normVars >>

\* Lines 96-100 and 107: the lines test_logs logs in every call, but for
\* the one of lines 103-105, which stands before the last when it is logged.
TestLines(withError) ==
    << Line("INFO", <<"User", "<user_id>", "performed", "action:", "<action>">>),
       Line("INFO", <<"Processing", "request", "from", "IP:", "192.168.1.<n>">>),
       Line("WARNING", <<"Rate", "limit", "check", "for", "user", "<user_id>:",
                         "<n>/10", "requests">>) >>
    \o (IF withError
        THEN << Line("ERROR", <<"Simulated", "error:", "Database", "connection",
                                "timeout", "for", "user", "<user_id>">>) >>
        ELSE << >>)
    \o << Line("INFO", <<"Request", "completed", "successfully", "for",
                         "action:", "<action>">>) >>

\* Lines 85-113: random.choice of line 102 decides on the ERROR line, and
\* another random.choice, of line 112, on the count of the response.
test_logs ==
    /\ Serving
    /\ \E withError \in BOOLEAN, four \in BOOLEAN :
          /\ glines' = TestLines(withError)
          /\ appLog' = appLog \o TestLines(withError)
          /\ gresp' = GetResponse("/test-logs", "success",
                                  IF four THEN 4 ELSE 5, 0, 0)
    /\ gcalls' = gcalls + 1
    /\ UNCHANGED << ingestVars, bgVars, normVars >>

\* Lines 129-139
AuditLines ==
    << Line("INFO", <<"[audit]", "user=<user_id>", "action=read",
                      "resource=<resource>">>),
       Line("INFO", <<"[audit]", "user=<user_id>", "action=update",
                      "resource=<resource>", "result=success">>),
       Line("INFO", <<"bumindu">>),
       Line("INFO", <<"[audit]", "bumindu">>),
       Line("INFO", <<"User", "<user_id>", "viewed", "the", "<resource>", "page">>),
       Line("WARNING", <<"Cache", "miss", "for", "user", "<user_id>",
                         "<resource>">>) >>

\* Lines 116-146
audit_logs ==
    /\ Serving
    /\ glines' = AuditLines
    /\ appLog' = appLog \o AuditLines
    /\ gresp' = GetResponse("/audit-logs", "success", 0, 2, 2)
    /\ gcalls' = gcalls + 1
    /\ UNCHANGED << ingestVars, bgVars, normVars >>

\* The service without POST /ingest: the hooks, the thread, the clock and
\* the GET handlers.
NextService ==
    \/ StartThread
    \/ StartupLog
    \/ SetStop
    \/ ShutdownLog
    \/ BgTest
    \/ BgIncrement
    \/ BgEmit
    \/ BgWaitReturn
    \/ Tick
    \/ root
    \/ test_logs
    \/ audit_logs

SpecService == Init /\ [][NextService]_vars

(***************************************************************************)
(* _normalize_records on its own, on the payloads json.loads can give.     *)
(***************************************************************************)
Scalars ==
    { VNone, VBool(TRUE), VBool(FALSE), VInt(0), VInt(42), VInt(0 - 3),
      VStr(<<>>), VStr(<<"a">>), VStr(<<"n", "'", "o">>) }

Mappings ==
    { VDict(<<>>),
      VDict(<<[k |-> <<"a">>, v |-> VInt(1)]>>),
      VDict(<<[k |-> MessageKey, v |-> VStr(<<"x">>)]>>),
      VDict(<<[k |-> MessageKey, v |-> VInt(1)], [k |-> <<"a">>, v |-> VNone]>>) }

NestedArrays == { VList(<<>>), VList(<<VInt(1), VStr(<<"a">>)>>) }

Elements == Scalars \cup Mappings \cup NestedArrays

Arrays ==
    { VList(xs) : xs \in UNION { [1..n -> Elements] : n \in 0..MaxArr } }

Payloads == Scalars \cup Mappings \cup Arrays

InitNormalize ==
    /\ InitIngest
    /\ InitBg
    /\ InitGet
    /\ appLog = <<>>
    /\ normpc = "call"
    /\ payload \in Payloads
    /\ normalized = <<>>

\* records = _normalize_records(data)
NormalizeCall ==
    /\ normpc = "call"
    /\ normalized' = _normalize_records(payload)
    /\ normpc' = "return"
    /\ UNCHANGED << payload, appLog, ingestVars, bgVars, getVars >>

NextNormalize == NormalizeCall

SpecNormalize == InitNormalize /\ [][NextNormalize]_vars

(***************************************************************************)
(* Properties of _normalize_records (SpecNormalize).                       *)
(***************************************************************************)
\* {"message": text}
MessageDict(text) == VDict(<<[k |-> MessageKey, v |-> VStr(text)]>>)

\* C8: for every array payload the batch has the array's length, and its
\* i-th record is the i-th element itself when that is a mapping and
\* {"message": str(element)} when it is anything else; [] gives the empty
\* batch.
C8_ArrayNormalized ==
    (normpc = "return" /\ IsList(payload)) =>
        /\ Len(normalized) = Len(payload.items)
        /\ \A n \in 1..Len(payload.items) :
              LET x == payload.items[n]
              IN  IF IsDict(x) THEN normalized[n] = x
                  ELSE normalized[n] = MessageDict(Str(x))
        /\ payload.items = <<>> => normalized = <<>>

\* An array of a mapping and a nested array has been normalised.
C8_Witness ==
    /\ normpc = "return"
    /\ IsList(payload)
    /\ Len(payload.items) = 2
    /\ IsDict(payload.items[1])
    /\ IsList(payload.items[2])
    /\ normalized[2].items[1].v.s = <<"[", "1", ",", " ", "'", "a", "'", "]">>

\* C9: for every mapping payload P the batch is [P], P unchanged, also when
\* P is empty or has a "message" key.
C9_MappingNormalized ==
    (normpc = "return" /\ IsDict(payload)) => normalized = <<payload>>

\* A mapping that has a "message" key has been normalised.
C9_Witness ==
    /\ normpc = "return"
    /\ IsDict(payload)
    /\ Len(payload.items) = 2
    /\ payload.items[1].k = MessageKey
    /\ Len(normalized) = 1

\* C10, the part about normalize: a payload that is neither a mapping nor an
\* array gives the one-record batch [{"message": str(payload)}].
C10_ScalarNormalized ==
    (normpc = "return" /\ ~IsList(payload) /\ ~IsDict(payload)) =>
        normalized = <<MessageDict(Str(payload))>>

(***************************************************************************)
(* Properties of POST /ingest (Spec).                                      *)
(***************************************************************************)
\* The bytes of the file that call c wrote, in file order.
OwnedBytes(c) ==
    LET at == SelectSeq([k \in 1..Len(file) |-> k], LAMBDA k : owner[k] = c)
    IN  [n \in 1..Len(at) |-> file[at[n]]]

\* The lines of a text file: what each line feed ends, and what follows the
\* last one, if anything does.
RECURSIVE SplitLines(_, _)
SplitLines(bs, cur) ==
    IF bs = <<>> THEN (IF cur = <<>> THEN <<>> ELSE <<cur>>)
    ELSE IF Head(bs) = "\n" THEN <<cur>> \o SplitLines(Tail(bs), <<>>)
    ELSE SplitLines(Tail(bs), Append(cur, Head(bs)))

Lines(bs) == SplitLines(bs, <<>>)

\* Whether a nonempty text ends with a line feed.
EndsWithNewline(bs) == bs = <<>> \/ bs[Len(bs)] = "\n"

\* A line of the file read back: decoded as UTF-8 and parsed as JSON.
ReadBack(line) ==
    LET text == Utf8Decode(line, 1, "strict")
    IN  IF text.ok THEN Loads(text.s) ELSE ParseFail

\* Whether a body is JSON text.
IsJson(b) ==
    LET text == Utf8Decode(b, 1, "strict")
    IN  text.ok /\ Loads(text.s).ok

\* The bytes call c wrote stand together in the file: once a byte of another
\* call follows one of c's, none of c's comes after it.
Contiguous(c) ==
    \A p \in 1..(Len(owner) - 1) :
        (owner[p] = c /\ owner[p + 1] # c) =>
            \A q \in (p + 2)..Len(owner) : owner[q] # c

RECURSIVE SumRecords(_)
SumRecords(c) == IF c = 0 THEN 0 ELSE Len(records[c]) + SumRecords(c - 1)

IsReceived(c) == resp[c].status = "received"
IsError(c) == resp[c].status = "error"

\* The bodies that are not JSON text.
NonJsonBodies == {b \in Bodies : ~IsJson(b)}

\* Failures of the environment: the file system, the client's connection.
EnvironmentErrors == {"OSError", "ClientDisconnect"}

\* C1: the lines of every successful call form one contiguous block of the
\* file, in the call's batch order, whatever the interleaving of the
\* handlers; when every call succeeded, the file holds exactly the sum of
\* the calls' record counts in lines.
C1_ConcurrentCallsContiguous ==
    /\ \A c \in Calls :
          IsReceived(c) =>
              /\ Contiguous(c)
              /\ OwnedBytes(c) =
                    Flatten([n \in 1..Len(records[c]) |-> LineBytes(records[c][n])])
    /\ (\A c \in Calls : IsReceived(c)) =>
          /\ Len(Lines(file)) = SumRecords(MaxCalls)
          /\ EndsWithNewline(file)

\* Two calls of two records each were in flight together (the one that
\* arrived second wrote first), and both succeeded.
C1_Witness ==
    /\ \A c \in Calls : IsReceived(c)
    /\ Len(records[1]) = 2
    /\ Len(records[2]) = 2
    /\ body[1] = BodyArrayMixed
    /\ owner[1] = 2

\* C2: a successful ingest of a batch of N records adds exactly N lines to
\* the file, and the i-th of them reads back as the i-th record.
C2_RoundTrip ==
    \A c \in Calls :
        IsReceived(c) =>
            LET ls == Lines(OwnedBytes(c))
            IN  /\ Len(ls) = Len(records[c])
                /\ EndsWithNewline(OwnedBytes(c))
                /\ \A n \in 1..Len(ls) :
                      /\ ReadBack(ls[n]).ok
                      /\ ReadBack(ls[n]).v = records[c][n]

\* A batch of two records and a string with a non-ASCII character and a
\* line feed were both ingested.
C2_Witness ==
    \E c, d \in Calls :
        /\ IsReceived(c)
        /\ IsReceived(d)
        /\ Len(records[c]) = 2
        /\ body[d] = BodyString
        /\ Len(Lines(file)) = 3

\* C6: every call ends with exactly one response, received/200 or
\* error/500; an exception anywhere in the handler gives the error response
\* and one ERROR entry of the application log, never escapes the handler,
\* and leaves the event loop free for the other calls (the loop is held
\* only by a handler between its await and its return, and is released only
\* to handlers that are suspended at the await or have returned).
C6_AlwaysOneResponse ==
    /\ \A c \in Calls :
          /\ ipc[c] # "done" => resp[c] = NoResponse
          /\ ipc[c] = "done" =>
                \/ exc[c] = "none" /\ resp[c] = Received(Len(records[c]))
                \/ /\ exc[c] # "none"
                   /\ resp[c] = Error(exc[c])
                   /\ \E k \in 1..Len(appLog) : appLog[k] = IngestError(exc[c])
          /\ exc[c] # "none" => ipc[c] \in {"except", "done"}
          /\ loop = c => ipc[c] \in {"open", "write", "respond", "except"}
          /\ loop = 0 => ipc[c] \in {"new", "await_body", "done"}
    /\ Len(SelectSeq(appLog, LAMBDA e : e.level = "ERROR"))
          = Cardinality({c \in Calls : IsError(c)})

\* A call failed on the file, and a later call is being served.
C6_Witness ==
    /\ IsError(1)
    /\ exc[1] = "OSError"
    /\ fopen[2]
    /\ idx[2] > 1

\* C7: a body that is not JSON is not rejected: the call answers
\* {received, 1} and its one line in the file reads back as {"message": the
\* body decoded with invalid sequences replaced}; it answers with an error
\* only when the file or the connection failed.
C7_NonJsonAccepted ==
    \A c \in Calls :
        (ipc[c] = "done" /\ body[c] \in NonJsonBodies) =>
            \/ /\ resp[c] = Received(1)
               /\ LET ls == Lines(OwnedBytes(c))
                  IN  /\ Len(ls) = 1
                      /\ ReadBack(ls[1]).ok
                      /\ ReadBack(ls[1]).v
                            = MessageDict(Utf8Decode(body[c], 1, "replace").s)
            \/ /\ IsError(c)
               /\ exc[c] \in EnvironmentErrors

\* A body that is no UTF-8 at all and a body of text that is no JSON were
\* both taken.
C7_Witness ==
    \E c, d \in Calls :
        /\ body[c] = BodyBadUtf8
        /\ body[d] = BodyText
        /\ resp[c] = Received(1)
        /\ resp[d] = Received(1)
        /\ OwnedBytes(c) # <<>>

\* C10: a body that is a JSON scalar is answered {received, 1}, short of a
\* failure of the file or the connection.
C10_ScalarBodyCountOne ==
    \A c \in Calls :
        (/\ ipc[c] = "done"
         /\ IsJson(body[c])
         /\ ~IsList(ParseBody(body[c]))
         /\ ~IsDict(ParseBody(body[c]))) =>
            \/ resp[c] = Received(1)
            \/ exc[c] \in EnvironmentErrors

(***************************************************************************)
(* Properties of the heartbeat thread (SpecBg, SpecBgFair).                *)
(***************************************************************************)
\* Whether _stop_bg was set at time t and the thread has left its loop.
StoppedAt(t) == atStop.t = t /\ bgpc = "done"

\* C3 as stated: started at time 0 and stopped at time 11, the thread has
\* emitted exactly the heartbeats 1 and 2.
C3_TwoHeartbeatsByEleven ==
    StoppedAt(11) => HeartbeatCounters = <<1, 2>>

\* C3 as the code has it: started at time 0 and stopped at time 11, the
\* thread has emitted exactly the heartbeats 1, 2 and 3 (at times 0, 5 and
\* 10: it emits before it waits), and none after it saw the stop signal.
C3_ThreeHeartbeatsByEleven ==
    StoppedAt(11) => HeartbeatCounters = <<1, 2, 3>>

\* The stop signal was set at time 11 and both the thread and on_shutdown
\* are through.
C3_Witness ==
    /\ StoppedAt(11)
    /\ phase = "stopped"
    /\ now > 11

\* C4 as stated: once _stop_bg is set, the counter is not incremented and
\* no heartbeat is emitted.
C4_NothingAfterStop ==
    [][_stop_bg => (bg_i' = bg_i /\ HeartbeatCounters' = HeartbeatCounters)]_vars

\* C4 as the code has it: once _stop_bg is set, the counter is incremented
\* and a heartbeat emitted only to finish the iteration whose loop test had
\* passed before the signal was set: at most once, and not at all when the
\* thread stood at its loop test or in its wait.
C4_OnlyTheIterationUnderWay ==
    _stop_bg =>
        /\ bg_i <= atStop.i + (IF atStop.pc = "increment" THEN 1 ELSE 0)
        /\ Len(HeartbeatCounters)
              <= atStop.hb + (IF atStop.pc \in {"increment", "emit"} THEN 1 ELSE 0)
        /\ bgpc = "done" => bg_i = Len(HeartbeatCounters)

\* The signal was set between the loop test and the increment; the thread
\* incremented, emitted once more and left.
C4_Witness ==
    /\ _stop_bg
    /\ atStop.pc = "increment"
    /\ atStop.i = 1
    /\ bg_i = 2
    /\ HeartbeatCounters = <<1, 2>>
    /\ bgpc = "done"

\* C5: once _stop_bg is set the thread leaves its loop (the thread being
\* scheduled), and no time passes before it does: a wait in progress ends
\* when the signal is set, not at its timeout.
C5_StopEndsTheWait ==
    /\ _stop_bg ~> bgpc = "done"
    /\ [][(_stop_bg /\ bgpc # "done") => now' = now]_vars

\* The signal was set during a wait with time left, and the thread left
\* its loop at that very time.
C5_Witness ==
    /\ bgpc = "done"
    /\ atStop.pc = "wait"
    /\ atStop.t = now
    /\ now + 2 < deadline

(***************************************************************************)
(* Further properties of POST /ingest (Spec).                              *)
(***************************************************************************)
\* C11: the count of a received response is the number of lines that call
\* appended to the file; for an empty JSON array the count is 0 and the call
\* appended nothing.
C11_CountIsLinesAppended ==
    \A c \in Calls :
        IsReceived(c) =>
            /\ resp[c].count = Len(Lines(OwnedBytes(c)))
            /\ resp[c].count = 0 <=> OwnedBytes(c) = <<>>
            /\ body[c] = BodyArrayEmpty => resp[c].count = 0

\* An empty array was answered with count 0 and a batch of two with count
\* 2; the file holds the two lines of the batch alone.
C11_Witness ==
    \E c, d \in Calls :
        /\ body[c] = BodyArrayEmpty
        /\ resp[c] = Received(0)
        /\ resp[d] = Received(2)
        /\ Len(Lines(file)) = 2
        /\ OwnedBytes(d) = file

\* Whether s is a prefix of t.
IsPrefix(s, t) == Len(s) <= Len(t) /\ SubSeq(t, 1, Len(s)) = s

\* C12: the file is append-only: every step leaves what the file held as a
\* prefix of what it holds afterwards, and the bytes keep the call that
\* wrote them.  (The steps of Spec are those of ingest, the one operation
\* that opens the file; the hooks, the thread and the GET handlers leave
\* ingestVars, and the file with them, unchanged.)
C12_AppendOnly ==
    [][IsPrefix(file, file') /\ IsPrefix(owner, owner')]_vars

\* A call that failed left a line at the head of the file, and a call that
\* succeeded later added its own after it.
C12_Witness ==
    \E c, d \in Calls :
        /\ IsError(c)
        /\ IsReceived(d)
        /\ OwnedBytes(c) # <<>>
        /\ OwnedBytes(d) # <<>>
        /\ owner[1] = c
        /\ owner[Len(owner)] = d

(***************************************************************************)
(* Further properties of the heartbeat thread (SpecBg).                    *)
(***************************************************************************)
\* The emitter is Running: its thread was started and _stop_bg is not set.
Running == bgpc # "unstarted" /\ ~_stop_bg

\* C13: the emitter is Running from on_startup on; it leaves Running once,
\* when on_shutdown sets _stop_bg; once set the flag stays set, the emitter
\* never is Running again, and a thread that left its loop stays out of it.
C13_StopsOnceForGood ==
    /\ [](/\ phase = "init" <=> bgpc = "unstarted"
          /\ phase \in {"starting", "serving"} => Running /\ bgpc # "done"
          /\ phase \in {"stopping", "stopped"} => _stop_bg)
    /\ [][/\ _stop_bg => _stop_bg'
          /\ (~_stop_bg /\ _stop_bg') => (phase = "serving" /\ phase' = "stopping")
          /\ (Running /\ ~Running') => _stop_bg'
          /\ (~Running /\ Running') => phase = "init"
          /\ bgpc = "done" => bgpc' = "done"]_vars

\* The emitter ran for more than one wait, was stopped in a wait, left its
\* loop, and on_shutdown is through.
C13_Witness ==
    /\ phase = "stopped"
    /\ _stop_bg
    /\ bgpc = "done"
    /\ atStop.pc = "wait"
    /\ Len(HeartbeatCounters) >= 2

(***************************************************************************)
(* Properties of the file handle of POST /ingest (Spec).                   *)
(***************************************************************************)
\* The bytes of the lines of call c's batch, in batch order.
BatchBytes(c) ==
    Flatten([n \in 1..Len(records[c]) |-> LineBytes(records[c][n])])

\* C14: the file is opened, written and closed within one call: a handle is
\* open, or holds bytes it has not written, only while its handler runs its
\* loop over the records; a handler that goes on to the received response,
\* or has given it, has closed the handle with every line of the batch in
\* the file; and when the event loop runs no handler (the more so when no
\* call is in progress) no handle is open and no byte is buffered.
C14_HandleWithinTheCall ==
    /\ \A c \in Calls :
          /\ fopen[c] => (loop = c /\ ipc[c] = "write")
          /\ fbuf[c] # <<>> => fopen[c]
          /\ (ipc[c] = "respond" \/ IsReceived(c)) =>
                /\ ~fopen[c]
                /\ fbuf[c] = <<>>
                /\ OwnedBytes(c) = BatchBytes(c)
    /\ loop = 0 => \A c \in Calls : ~fopen[c] /\ fbuf[c] = <<>>

\* A batch of two was answered received while another call waits for its
\* body: both lines are in the file and no handle is open.
C14_Witness ==
    \E c, d \in Calls :
        /\ resp[c] = Received(2)
        /\ Len(Lines(file)) = 2
        /\ ipc[d] = "await_body"
        /\ loop = 0
        /\ \A e \in Calls : ~fopen[e]

(***************************************************************************)
(* Properties of the error path of POST /ingest (Spec).                    *)
(***************************************************************************)
\* C15: the ERROR entry logged for a failed call carries the payload of the
\* request, its body or its records, and not the exception alone.
C15_ErrorLogHasPayload ==
    \A c \in Calls :
        IsError(c) =>
            \E k \in 1..Len(appLog) :
                /\ appLog[k].level = "ERROR"
                /\ appLog[k].detail = exc[c]
                /\ (body[c] \in appLog[k].context
                      \/ records[c] \in appLog[k].context)

(***************************************************************************)
(* Properties of the GET handlers (SpecService).                           *)
(***************************************************************************)
\* Whether a logged line contains the token [audit].
HasAuditToken(e) == \E k \in 1..Len(e.event) : e.event[k] = "[audit]"

\* C16: the counts of a generator's response are those of the lines its
\* call logged: for /audit-logs the lines with and without the token
\* [audit], for /test-logs all of them.
C16_CountsMatchEmitted ==
    /\ gresp.endpoint = "/audit-logs" =>
          /\ gresp.audit_logs = Len(SelectSeq(glines, HasAuditToken))
          /\ gresp.non_audit_logs
                = Len(SelectSeq(glines, LAMBDA e : ~HasAuditToken(e)))
    /\ gresp.endpoint = "/test-logs" => gresp.logs_generated = Len(glines)

(***************************************************************************)
(* Properties of the heartbeat thread among the handlers (SpecService).    *)
(***************************************************************************)
\* C17: the k-th heartbeat logged carries the counter k: the counters begin
\* at 1 and rise by 1, none left out or repeated, whatever the hooks and
\* the GET handlers log in between; the thread's i is the counter of the
\* last heartbeat, or one more between the increment and the logging.
C17_KthHeartbeatCarriesK ==
    /\ \A k \in 1..Len(HeartbeatCounters) : HeartbeatCounters[k] = k
    /\ bg_i = Len(HeartbeatCounters) + (IF bgpc = "emit" THEN 1 ELSE 0)

\* Three heartbeats were logged, the lines of a GET handler between two of
\* them, and on_shutdown has run.
C17_Witness ==
    /\ HeartbeatCounters = <<1, 2, 3>>
    /\ phase = "stopped"
    /\ glines # <<>>
    /\ \E j, k, l \in 1..Len(appLog) :
          /\ j < k
          /\ k < l
          /\ appLog[j] = Heartbeat(1)
          /\ appLog[k] = glines[1]
          /\ appLog[l] = Heartbeat(2)

(***************************************************************************)
(* Properties of a failed POST /ingest (Spec).                             *)
(***************************************************************************)
\* C18: a call that answered error left no byte in the file: a failed
\* ingest is all-or-nothing.
C18_FailedCallLeavesNoLine ==
    \A c \in Calls : IsError(c) => OwnedBytes(c) = <<>>

(***************************************************************************)
(* The heartbeats after the stop signal (SpecBg).                          *)
(***************************************************************************)
\* The heartbeats logged since on_shutdown set _stop_bg.
SinceStop == Len(HeartbeatCounters) - atStop.hb

\* C19: after on_shutdown set _stop_bg the thread logs at most one more
\* heartbeat, wherever in its loop it stood; once it logged that one it logs
\* no other, and it leaves its loop only after the signal.
C19_AtMostOneMoreHeartbeat ==
    /\ [](_stop_bg => SinceStop \in {0, 1})
    /\ [](bgpc = "done" => _stop_bg)
    /\ [][(_stop_bg /\ SinceStop = 1)
            => HeartbeatCounters' = HeartbeatCounters]_vars

\* The signal was set when the thread had incremented i and not yet logged:
\* it logged that heartbeat, its third, and left.
C19_Witness ==
    /\ _stop_bg
    /\ atStop.pc = "emit"
    /\ atStop.hb = 2
    /\ SinceStop = 1
    /\ bgpc = "done"

====
